---- MODULE Spec2Model ----
(***************************************************************************)
(* A model of the NMEA 0183 decoding library (package nmea): the checksum  *)
(* validator, the tokenizer, the sentence decoders and their dispatch to   *)
(* a consumer, the Process stream driver with its error handler, and the   *)
(* GSVAccumulator that merges satellite-in-view fragments.                 *)
(*                                                                         *)
(* Text is a sequence of one-character strings.  The specifications of the *)
(* module: SpecAcc (calls of GSVAccumulator.Add with any fragments),       *)
(* SpecNumbered (the same with well-numbered fragments), SpecChecksum      *)
(* (checkChecksum on one line), SpecParse (parseMessage on one line),      *)
(* SpecProcess (the Process loop over a stream of lines), SpecFix          *)
(* (FixQuality.String on one value) and SpecCumulative (calls of the       *)
(* primitives of one cumulativeErrorParser).                               *)
(***************************************************************************)
EXTENDS Integers, Sequences, FiniteSets, TLC

VARIABLES
    g,          \* the GSVAccumulator: [InView, Parts, prev, SatInfo]
    last,       \* the GSV fragment given to the latest Add call
    ret,        \* what the latest Add call returned
    branch,     \* which branch the latest Add call took
    run,        \* history: length of the in-order run 1..run ending at the latest Add
    runTotal,   \* history: the TotalSentences shared by that run
    runSats,    \* history: the concatenation of that run's satellite lists
    csLine,     \* the line given to checkChecksum
    csValid,    \* what checkChecksum returned for it ("unchecked" before the call)
    line,       \* the raw line given to the latest parseMessage call
    handler,    \* the consumer: the set of sentence kinds whose Handler interface it satisfies
    perr,       \* the outcome of the latest parseMessage call: the error returned, Nil, or a panic
    calls,      \* the Handle* invocations made during the latest parseMessage call, in order
    pc,         \* where Process is: "scan" (in the loop), "done" (returned) or "panic"
    errh,       \* the errh argument of Process: "nil" or "custom"
    nread,      \* how many lines the scanner has produced
    errhArgs,   \* the arguments errh was called with for the latest line (<<>>: not called)
    errhRet,    \* what errh returned for the latest line (Nil when not called)
    result,     \* what Process returned (Pending until it returns)
    fq,         \* the FixQuality whose String method is called
    fqStr,      \* the outcome of fq.String(): the text returned, or a panic
    cep,         \* a cumulativeErrorParser: [err, panic]
    cepOp,       \* the latest primitive called on cep: [op, s, ref]
    cepN,        \* how many primitives have been called on cep
    cepFail,     \* history: the error of the latest parse that failed (Nil: none did)
    cepFails     \* history: how many calls held a parse that failed

accVars == <<g, last, ret, branch, run, runTotal, runSats>>

csVars == <<csLine, csValid>>

msgVars == <<line, handler, perr, calls>>

procVars == <<pc, errh, nread, errhArgs, errhRet, result>>

fixVars == <<fq, fqStr>>

cumVars == <<cep, cepOp, cepN, cepFail, cepFails>>

vars == <<g, last, ret, branch, run, runTotal, runSats, csLine, csValid,
          line, handler, perr, calls,
          pc, errh, nread, errhArgs, errhRet, result,
          fq, fqStr, cep, cepOp, cepN, cepFail, cepFails>>

----------------------------------------------------------------------------
(* Bounds of the model.                                                    *)

\* The largest TotalSentences a fragment carries.
MaxTotal == 3

\* The number of distinct satellites (a GSVSatInfo is modelled by its PRN).
MaxSat == 2

\* The largest satellites-in-view count a fragment carries.
MaxInView == 1

----------------------------------------------------------------------------
(* GSV fragments and the GSVAccumulator.                                   *)

TotalDom == 0 .. MaxTotal
NumDom == -1 .. (MaxTotal + 1)
SatIds == 1 .. MaxSat
SatLists == {<<>>} \cup {<<s>> : s \in SatIds}

\* type GSV struct
GSV == [InView : 0 .. MaxInView, SentenceNum : NumDom,
        TotalSentences : TotalDom, SatInfo : SatLists]

NoGSV == [InView |-> 0, SentenceNum |-> 0, TotalSentences |-> 0, SatInfo |-> <<>>]

\* GSVAccumulator{}: the zero value
ZeroAccumulator == [InView |-> 0, Parts |-> 0, prev |-> 0, SatInfo |-> <<>>]

\* The condition of the first branch of Add.
Resync(acc, a) == a.TotalSentences # acc.Parts \/ a.SentenceNum # acc.prev + 1

\* A slip: the total is not compared.
AddIgnoringTotal(acc, a) ==
    IF a.SentenceNum # acc.prev + 1
    THEN [acc |-> [InView |-> a.InView, Parts |-> a.TotalSentences,
                   prev |-> IF a.SentenceNum # 1 THEN 0 ELSE a.SentenceNum,
                   SatInfo |-> IF a.SentenceNum # 1 THEN <<>> ELSE a.SatInfo],
          ret |-> (a.TotalSentences = 1),
          branch |-> IF a.SentenceNum # 1 THEN "orphan" ELSE "resync"]
    ELSE [acc |-> [acc EXCEPT !.prev = a.SentenceNum,
                              !.SatInfo = acc.SatInfo \o a.SatInfo],
          ret |-> (a.SentenceNum = acc.Parts),
          branch |-> "continue"]

\* A slip: a resynchronization on fragment 1 keeps the accumulated list.
AddKeepingList(acc, a) ==
    IF Resync(acc, a)
    THEN [acc |-> [InView |-> a.InView, Parts |-> a.TotalSentences,
                   prev |-> IF a.SentenceNum # 1 THEN 0 ELSE a.SentenceNum,
                   SatInfo |-> IF a.SentenceNum # 1 THEN <<>>
                               ELSE acc.SatInfo \o a.SatInfo],
          ret |-> (a.TotalSentences = 1),
          branch |-> IF a.SentenceNum # 1 THEN "orphan" ELSE "resync"]
    ELSE [acc |-> [acc EXCEPT !.prev = a.SentenceNum,
                              !.SatInfo = acc.SatInfo \o a.SatInfo],
          ret |-> (a.SentenceNum = acc.Parts),
          branch |-> "continue"]

\* A slip: an orphan fragment is adopted like fragment 1.
AddKeepingOrphan(acc, a) ==
    IF Resync(acc, a)
    THEN [acc |-> [InView |-> a.InView, Parts |-> a.TotalSentences,
                   prev |-> a.SentenceNum, SatInfo |-> a.SatInfo],
          ret |-> (a.TotalSentences = 1),
          branch |-> IF a.SentenceNum # 1 THEN "orphan" ELSE "resync"]
    ELSE [acc |-> [acc EXCEPT !.prev = a.SentenceNum,
                              !.SatInfo = acc.SatInfo \o a.SatInfo],
          ret |-> (a.SentenceNum = acc.Parts),
          branch |-> "continue"]

\* A slip: the continue branch puts the new entries before the old ones.
AddPrepending(acc, a) ==
    IF Resync(acc, a)
    THEN [acc |-> [InView |-> a.InView, Parts |-> a.TotalSentences,
                   prev |-> IF a.SentenceNum # 1 THEN 0 ELSE a.SentenceNum,
                   SatInfo |-> IF a.SentenceNum # 1 THEN <<>> ELSE a.SatInfo],
          ret |-> (a.TotalSentences = 1),
          branch |-> IF a.SentenceNum # 1 THEN "orphan" ELSE "resync"]
    ELSE [acc |-> [acc EXCEPT !.prev = a.SentenceNum,
                              !.SatInfo = a.SatInfo \o acc.SatInfo],
          ret |-> (a.SentenceNum = acc.Parts),
          branch |-> "continue"]

\* A slip: a resynchronization never reports a complete sequence.
AddResyncNeverComplete(acc, a) ==
    IF Resync(acc, a)
    THEN [acc |-> [InView |-> a.InView, Parts |-> a.TotalSentences,
                   prev |-> IF a.SentenceNum # 1 THEN 0 ELSE a.SentenceNum,
                   SatInfo |-> IF a.SentenceNum # 1 THEN <<>> ELSE a.SatInfo],
          ret |-> FALSE,
          branch |-> IF a.SentenceNum # 1 THEN "orphan" ELSE "resync"]
    ELSE [acc |-> [acc EXCEPT !.prev = a.SentenceNum,
                              !.SatInfo = acc.SatInfo \o a.SatInfo],
          ret |-> (a.SentenceNum = acc.Parts),
          branch |-> "continue"]

\* func (g *GSVAccumulator) Add(a GSV) bool: the accumulator afterwards, the
\* value returned and the branch taken.
Add(acc, a) ==
    IF Resync(acc, a)
    THEN [acc |-> [InView |-> a.InView, Parts |-> a.TotalSentences,
                   prev |-> IF a.SentenceNum # 1 THEN 0 ELSE a.SentenceNum,
                   SatInfo |-> IF a.SentenceNum # 1 THEN <<>> ELSE a.SatInfo],
          ret |-> (a.TotalSentences = 1),
          branch |-> IF a.SentenceNum # 1 THEN "orphan" ELSE "resync"]
    ELSE [acc |-> [acc EXCEPT !.prev = a.SentenceNum,
                              !.SatInfo = acc.SatInfo \o a.SatInfo],
          ret |-> (a.SentenceNum = acc.Parts),
          branch |-> "continue"]

\* a := GSVAccumulator{}
InitAcc ==
    /\ g = ZeroAccumulator
    /\ last = NoGSV
    /\ ret = FALSE
    /\ branch = "none"
    /\ run = 0
    /\ runTotal = 0
    /\ runSats = <<>>

\* History of the inputs alone: the fragments most recently added are numbered
\* 1, 2, ..., run, all with TotalSentences = runTotal >= run.
RunAfter(a) ==
    IF a.SentenceNum = 1 /\ a.TotalSentences >= 1
    THEN [run |-> 1, total |-> a.TotalSentences, sats |-> a.SatInfo]
    ELSE IF /\ run >= 1
            /\ a.TotalSentences = runTotal
            /\ a.SentenceNum = run + 1
            /\ a.SentenceNum <= a.TotalSentences
         THEN [run |-> run + 1, total |-> runTotal, sats |-> runSats \o a.SatInfo]
         ELSE [run |-> 0, total |-> 0, sats |-> <<>>]

\* A caller adds one fragment.
AddFragment ==
    \E a \in GSV :
        /\ g' = Add(g, a).acc
        /\ ret' = Add(g, a).ret
        /\ branch' = Add(g, a).branch
        /\ last' = a
        /\ run' = RunAfter(a).run
        /\ runTotal' = RunAfter(a).total
        /\ runSats' = RunAfter(a).sats


\* A caller adds one fragment of a well-numbered sequence:
\* 1 <= SentenceNum <= TotalSentences.
AddNumbered ==
    \E a \in GSV :
        /\ 1 <= a.SentenceNum
        /\ a.SentenceNum <= a.TotalSentences
        /\ g' = Add(g, a).acc
        /\ ret' = Add(g, a).ret
        /\ branch' = Add(g, a).branch
        /\ last' = a
        /\ run' = RunAfter(a).run
        /\ runTotal' = RunAfter(a).total
        /\ runSats' = RunAfter(a).sats

----------------------------------------------------------------------------
(* Text: strings are sequences of one-character strings over printable     *)
(* ASCII, so a byte of the string and a rune of it are the same thing.     *)

\* The printable ASCII characters, from code 32 to code 126.  The grave accent
\* (code 96) cannot be written in a string of the module: "grave" holds its
\* place and no text of the model contains it.
Ascii == <<
    " ", "!", "\"", "#", "$", "%", "&", "'", "(", ")", "*", "+", ",", "-", ".", "/",
    "0", "1", "2", "3", "4", "5", "6", "7", "8", "9", ":", ";", "<", "=", ">", "?",
    "@", "A", "B", "C", "D", "E", "F", "G", "H", "I", "J", "K", "L", "M", "N", "O",
    "P", "Q", "R", "S", "T", "U", "V", "W", "X", "Y", "Z", "[", "\\", "]", "^", "_",
    "grave", "a", "b", "c", "d", "e", "f", "g", "h", "i", "j", "k", "l", "m", "n", "o",
    "p", "q", "r", "s", "t", "u", "v", "w", "x", "y", "z", "{", "|", "}", "~"
>>

OrdTable == [c \in {Ascii[i] : i \in 1 .. Len(Ascii)} |->
                31 + (CHOOSE i \in 1 .. Len(Ascii) : Ascii[i] = c)]

\* int(c) for a byte c of a string
Ord(c) == OrdTable[c]

\* s[i:] of Go, with i counted from 0
From(s, i) == SubSeq(s, i + 1, Len(s))

\* s[:i] of Go
Upto(s, i) == SubSeq(s, 1, i)

\* a ^ b on non-negative integers
RECURSIVE BitXor(_, _)
BitXor(a, b) ==
    IF a = 0 THEN b
    ELSE IF b = 0 THEN a
    ELSE (((a % 2) + (b % 2)) % 2) + (2 * BitXor(a \div 2, b \div 2))

\* The digit a byte stands for in strconv.ParseUint: 0-9, then a-z and A-Z as
\* 10..35; 99 for a byte that is no digit in any base.
DigitOf(c) ==
    LET o == Ord(c)
    IN  IF 48 <= o /\ o <= 57 THEN o - 48
        ELSE IF 97 <= o /\ o <= 122 THEN (o - 97) + 10
        ELSE IF 65 <= o /\ o <= 90 THEN (o - 65) + 10
        ELSE 99

IsDigit(c) == DigitOf(c) < 10

AllDigits(s) == \A i \in 1 .. Len(s) : IsDigit(s[i])

\* The value of a string of digits of the base (the strings of the model are
\* short enough for the value to fit).
RECURSIVE DigitsValue(_, _)
DigitsValue(s, base) ==
    IF Len(s) = 0 THEN 0
    ELSE (DigitsValue(Upto(s, Len(s) - 1), base) * base) + DigitOf(s[Len(s)])

\* strconv.ParseUint(s, base, 64) for an explicit base: no prefix and no
\* underscore is accepted, an empty string is a syntax error.
ParseUint(s, base) ==
    IF Len(s) = 0 \/ \E i \in 1 .. Len(s) : DigitOf(s[i]) >= base
    THEN [ok |-> FALSE, val |-> 0]
    ELSE [ok |-> TRUE, val |-> DigitsValue(s, base)]

\* strconv.ParseInt(s, base, 64): one leading sign is accepted.
ParseInt(s, base) ==
    IF Len(s) = 0 THEN [ok |-> FALSE, val |-> 0]
    ELSE LET signed == s[1] \in {"+", "-"}
             un == ParseUint(IF signed THEN Tail(s) ELSE s, base)
         IN  IF ~un.ok THEN [ok |-> FALSE, val |-> 0]
             ELSE [ok |-> TRUE, val |-> IF s[1] = "-" THEN 0 - un.val ELSE un.val]

\* strings.Split(s, ","): empty fields are kept, and a string with no comma is
\* one field.
RECURSIVE Split(_)
Split(s) ==
    IF \A i \in 1 .. Len(s) : s[i] # ","
    THEN <<s>>
    ELSE LET i == CHOOSE k \in 1 .. Len(s) :
                      s[k] = "," /\ \A j \in 1 .. (k - 1) : s[j] # ","
         IN  <<SubSeq(s, 1, i - 1)>> \o Split(SubSeq(s, i + 1, Len(s)))

\* strings.Join(parts, ",")
RECURSIVE Join(_)
Join(parts) ==
    IF Len(parts) = 0 THEN <<>>
    ELSE IF Len(parts) = 1 THEN parts[1]
    ELSE parts[1] \o <<",">> \o Join(Tail(parts))

----------------------------------------------------------------------------
(* The checksum validator.                                                 *)

\* The bytes the loop of checkChecksum visits before it breaks: those before
\* the first '*' of s, all of s when it holds none.
BeforeStar(s) ==
    IF \A i \in 1 .. Len(s) : s[i] # "*" THEN s
    ELSE Upto(s, (CHOOSE k \in 1 .. Len(s) :
                      s[k] = "*" /\ \A j \in 1 .. (k - 1) : s[j] # "*") - 1)

\* cs = cs ^ int(c) for every byte c of s, from cs = 0.  The exclusive-or is
\* associative, and the fold is written over the two halves of s to keep the
\* evaluation shallow.
RECURSIVE XorAll(_)
XorAll(s) ==
    IF Len(s) = 0 THEN 0
    ELSE IF Len(s) = 1 THEN Ord(s[1])
    ELSE BitXor(XorAll(Upto(s, Len(s) \div 2)), XorAll(From(s, Len(s) \div 2)))

\* func checkChecksum(line string) bool
checkChecksum(l) ==
    IF Len(l) < 4 THEN FALSE
    ELSE IF l[1] # "$" THEN FALSE
    ELSE IF l[Len(l) - 2] # "*" THEN FALSE
    ELSE LET exp == ParseInt(From(l, Len(l) - 2), 16)
         IN  IF ~exp.ok THEN FALSE
             ELSE XorAll(BeforeStar(From(l, 1))) = exp.val

\* The longest line given to checkChecksum on its own.
MaxLineLen == 5

\* The bytes those lines are made of: the frame's marks, hexadecimal digits,
\* a letter that is no hexadecimal digit, and the two signs.
CsAlphabet == {"$", "*", "0", "1", "4", "A", "G", "+", "-"}

CsLines == UNION {[1 .. n -> CsAlphabet] : n \in 0 .. MaxLineLen}

InitChecksum ==
    /\ csLine \in CsLines
    /\ csValid = "unchecked"

\* checkChecksum(csLine) is called.
CheckLine ==
    /\ csValid = "unchecked"
    /\ csValid' = IF checkChecksum(csLine) THEN "valid" ELSE "invalid"
    /\ UNCHANGED csLine

----------------------------------------------------------------------------
(* Errors and the field primitives.                                        *)

\* An error value: its origin and the text it carries.
Nil == [type |-> "nil", text |-> <<>>]

\* errBadChecksum = errors.New("bad checksum")
errBadChecksum == [type |-> "bad checksum", text |-> <<>>]

\* The *strconv.NumError of a failed ParseFloat or ParseInt: it names the
\* function and the text that did not parse.
NumError(fn, s) == [type |-> fn, text |-> s]

\* The *time.ParseError of a failed time.Parse.
TimeError(value) == [type |-> "time.Parse", text |-> value]

\* The outcome of a call that did not return: a run-time panic (an index or a
\* slice bound out of range).
Panic == [type |-> "panic", text |-> <<>>]

\* strconv.ParseFloat(s, 64) returns no error.  Decimal numbers only: an
\* optional sign, digits with at most one point, at least one digit, nothing
\* else.  The texts of the model hold no exponent, no hexadecimal mantissa and
\* none of the words inf, infinity and nan, which are the other forms
\* ParseFloat accepts.
ParseFloatOK(s) ==
    LET body == IF Len(s) > 0 /\ s[1] \in {"+", "-"} THEN Tail(s) ELSE s
        points == {i \in 1 .. Len(body) : body[i] = "."}
    IN  /\ Cardinality(points) <= 1
        /\ \A i \in 1 .. Len(body) : IsDigit(body[i]) \/ body[i] = "."
        /\ \E i \in 1 .. Len(body) : IsDigit(body[i])

\* func (c *cumulativeErrorParser) parseFloat(s string) float64: c.err after
\* the call, given c.err before it (the float itself is not modelled).
parseFloat(err, s) ==
    IF s = <<>> THEN err
    ELSE IF ParseFloatOK(s) THEN err
    ELSE NumError("strconv.ParseFloat", s)

\* A slip: a field that parses clears the recorded error.
parseIntClearing(err, s) ==
    IF s = <<>> THEN err
    ELSE IF ParseInt(s, 10).ok THEN Nil
    ELSE NumError("strconv.ParseInt", s)

\* func (c *cumulativeErrorParser) parseInt(s string) int: c.err after the
\* call, given c.err before it.
parseInt(err, s) ==
    IF s = <<>> THEN err
    ELSE IF ParseInt(s, 10).ok THEN err
    ELSE NumError("strconv.ParseInt", s)

\* The int that parseInt returns: 0 for an empty field and for one that does
\* not parse.
parseIntValue(s) == IF s = <<>> THEN 0 ELSE ParseInt(s, 10).val

\* The degree prefix of parseDMS: 3 bytes for "E" and "W", 2 otherwise.
DegreeLen(ref) == IF ref = <<"E">> \/ ref = <<"W">> THEN 3 ELSE 2

\* func (c *cumulativeErrorParser) parseDMS(s, ref string) float64: the state
\* of the parser afterwards.  s[:n] panics when s is shorter than n.
parseDMS(cp, s, ref) ==
    IF Len(s) < DegreeLen(ref)
    THEN [cp EXCEPT !.panic = TRUE]
    ELSE [cp EXCEPT !.err = parseFloat(parseFloat(cp.err, Upto(s, DegreeLen(ref))),
                                       From(s, DegreeLen(ref)))]

\* cp := &cumulativeErrorParser{}
NewParser == [err |-> Nil, panic |-> FALSE]

\* parts[i] of Go exists.
Has(parts, i) == i < Len(parts)

\* parts[i] of Go, with i counted from 0 (the empty text where it does not
\* exist: a step that needs it checks Has first).
Field(parts, i) == IF Has(parts, i) THEN parts[i + 1] ELSE <<>>

\* One evaluation step of a decoder: op is applied to the text s (and ref), and
\* the step reads parts[need] (need = -1: it reads no field).
FloatOf(parts, i) == [op |-> "float", need |-> i, s |-> Field(parts, i), ref |-> <<>>]
IntOf(parts, i) == [op |-> "int", need |-> i, s |-> Field(parts, i), ref |-> <<>>]
DMSOf(parts, i) == [op |-> "dms", need |-> i + 1, s |-> Field(parts, i), ref |-> Field(parts, i + 1)]
Read(parts, i) == [op |-> "read", need |-> i, s |-> <<>>, ref |-> <<>>]
FloatOfText(s) == [op |-> "float", need |-> -1, s |-> s, ref |-> <<>>]
IntOfText(s) == [op |-> "int", need |-> -1, s |-> s, ref |-> <<>>]

\* The parser after one step; a panic ends the evaluation.
Step(parts, cp, st) ==
    IF cp.panic THEN cp
    ELSE IF st.need >= Len(parts) THEN [cp EXCEPT !.panic = TRUE]
    ELSE IF st.op = "float" THEN [cp EXCEPT !.err = parseFloat(cp.err, st.s)]
    ELSE IF st.op = "int" THEN [cp EXCEPT !.err = parseInt(cp.err, st.s)]
    ELSE IF st.op = "dms" THEN parseDMS(cp, st.s, st.ref)
    ELSE cp

\* The steps of a decoder, evaluated in the order the code evaluates them
\* (first half, then second half: the evaluation is kept shallow).
RECURSIVE Eval(_, _, _)
Eval(parts, cp, steps) ==
    IF Len(steps) = 0 THEN cp
    ELSE IF Len(steps) = 1 THEN Step(parts, cp, steps[1])
    ELSE Eval(parts, Eval(parts, cp, Upto(steps, Len(steps) \div 2)),
              From(steps, Len(steps) \div 2))

----------------------------------------------------------------------------
(* time.Parse, for the two layouts the decoders use.                       *)

TwoDigits(s, i) == (10 * DigitOf(s[i])) + DigitOf(s[i + 1])

\* The time of day HHMMSS[.fff] is accepted: two-digit hour, minute and second
\* in range, then nothing or a point followed by digits only.  (A one-digit
\* hour is read when a non-digit follows it, and then the minute fails.)
ClockOK(s) ==
    /\ Len(s) >= 6
    /\ AllDigits(Upto(s, 6))
    /\ TwoDigits(s, 1) < 24
    /\ TwoDigits(s, 3) < 60
    /\ TwoDigits(s, 5) < 60
    /\ \/ Len(s) = 6
       \/ /\ Len(s) >= 8
          /\ s[7] = "."
          /\ AllDigits(From(s, 7))

\* The year of a two-byte year field: 69..99 are 19xx, 0..68 are 20xx.
YearOf(yy) == IF yy >= 69 THEN 1900 + yy ELSE 2000 + yy

IsLeap(y) == (y % 4 = 0) /\ ((y % 100 # 0) \/ (y % 400 = 0))

DaysIn(m, y) ==
    IF m = 2 THEN (IF IsLeap(y) THEN 29 ELSE 28)
    ELSE IF m \in {4, 6, 9, 11} THEN 30 ELSE 31

\* The two bytes of the year are read by an atoi that accepts one leading sign.
YearFieldOK(p) ==
    \/ AllDigits(p)
    \/ p[1] \in {"+", "-"} /\ IsDigit(p[2])

YearFieldValue(p) ==
    IF AllDigits(p) THEN TwoDigits(p, 1)
    ELSE IF p[1] = "-" THEN 0 - DigitOf(p[2]) ELSE DigitOf(p[2])

\* The date DDMMYY is accepted: two-digit day and month, a two-byte year, a
\* month in 1..12 and a day that exists in that month.
DateOK(d) ==
    /\ Len(d) = 6
    /\ AllDigits(Upto(d, 4))
    /\ YearFieldOK(From(d, 4))
    /\ TwoDigits(d, 3) >= 1
    /\ TwoDigits(d, 3) <= 12
    /\ TwoDigits(d, 1) >= 1
    /\ TwoDigits(d, 1) <= DaysIn(TwoDigits(d, 3), YearOf(YearFieldValue(From(d, 4))))

\* time.Parse("150405 UTC", s+" UTC") returns no error.
ParseClock(s) == ClockOK(s)

\* time.Parse("150405.99 020106 UTC", t+" "+d+" UTC") returns no error.
ParseClockDate(t, d) == ClockOK(t) /\ DateOK(d)

----------------------------------------------------------------------------
(* Calls of the primitives of one cumulativeErrorParser.                   *)

\* The number of primitive calls made on one parser.
MaxCalls == 3

\* The texts handed to the primitives: empty, numbers, an integer that is a
\* float too, a float that is no integer, texts that are no numbers, a
\* position, a position with a damaged degree part, one with damaged minutes,
\* one damaged in both, and a text too short to hold a degree part.
PrimTexts ==
    { <<>>,
      <<"7">>,
      <<"1", ".", "5">>,
      <<"X">>,
      <<"1", "2", "Y">>,
      <<"4", "8", "0", "7", ".", "5">>,
      <<"4", "X", "0", "7", ".", "5">>,
      <<"4", "8", "0", "Z", ".", "5">>,
      <<"A", "8", "0", "B">> }

\* The hemisphere letters given to parseDMS (2-byte and 3-byte degrees).
PrimRefs == { <<"N">>, <<"W">> }

PrimOps == {"float", "int", "dms"}

\* No primitive has been called yet.
NoCall == [op |-> "none", s |-> <<>>, ref |-> <<>>]

\* The strconv parses a call makes, in order: the function and its text.
\* parseFloat and parseInt skip the empty text; parseDMS parses s[:n] and
\* then s[n:] through parseFloat.
Attempts(op, s, ref) ==
    LET one(fn, t) == IF t = <<>> THEN <<>> ELSE <<[fn |-> fn, s |-> t]>>
    IN  IF op = "float" THEN one("strconv.ParseFloat", s)
        ELSE IF op = "int" THEN one("strconv.ParseInt", s)
        ELSE one("strconv.ParseFloat", Upto(s, DegreeLen(ref)))
                 \o one("strconv.ParseFloat", From(s, DegreeLen(ref)))

\* strconv returns an error for the attempt.
AttemptFails(at) ==
    IF at.fn = "strconv.ParseFloat" THEN ~ParseFloatOK(at.s) ELSE ~ParseInt(at.s, 10).ok

\* The positions of the failing attempts of a call.
FailingAttempts(op, s, ref) ==
    {i \in DOMAIN Attempts(op, s, ref) : AttemptFails(Attempts(op, s, ref)[i])}

\* The error strconv returned for the last failing attempt of a call.
LastFailure(op, s, ref) ==
    LET i == CHOOSE k \in FailingAttempts(op, s, ref) :
                 \A j \in FailingAttempts(op, s, ref) : j <= k
    IN  NumError(Attempts(op, s, ref)[i].fn, Attempts(op, s, ref)[i].s)

\* One primitive applied to a parser.
Apply(c, op, s, ref) ==
    IF op = "float" THEN [c EXCEPT !.err = parseFloat(c.err, s)]
    ELSE IF op = "int" THEN [c EXCEPT !.err = parseInt(c.err, s)]
    ELSE parseDMS(c, s, ref)

InitCumulative ==
    /\ cep = NewParser
    /\ cepOp = NoCall
    /\ cepN = 0
    /\ cepFail = Nil
    /\ cepFails = 0

\* One call of parseFloat, parseInt or parseDMS on the parser.  A call that
\* panics does not return, and nothing is called after it.
CallPrimitive ==
    /\ ~cep.panic
    /\ cepN < MaxCalls
    /\ \E op \in PrimOps, s \in PrimTexts, ref \in PrimRefs :
         /\ op # "dms" => ref = <<"N">>
         /\ cep' = Apply(cep, op, s, ref)
         /\ cepOp' = [op |-> op, s |-> s, ref |-> IF op = "dms" THEN ref ELSE <<>>]
         /\ cepN' = cepN + 1
         /\ IF op = "dms" /\ Len(s) < DegreeLen(ref)
            THEN UNCHANGED <<cepFail, cepFails>>
            ELSE IF FailingAttempts(op, s, ref) = {}
            THEN UNCHANGED <<cepFail, cepFails>>
            ELSE /\ cepFail' = LastFailure(op, s, ref)
                 /\ cepFails' = cepFails + 1

----------------------------------------------------------------------------
(* The sentence decoders.  A decoder returns [err, calls]: the error it    *)
(* returned (Nil for none, Panic when it did not return) and the Handle*   *)
(* invocations it made on the consumer.  The consumer h is the set of      *)
(* sentence kinds whose Handler interface it satisfies (nil: none).        *)

Kinds == {"RMC", "VTG", "GGA", "GSA", "GLL", "ZDA", "GSV", "AAM", "GST"}

\* One invocation of h.Handle<kind>; for a GSV the record handed over.
Call(kind) == [kind |-> kind, gsv |-> NoGSV]

CallGSV(rec) == [kind |-> "GSV", gsv |-> rec]

\* return nil, the consumer not invoked
Ignored == [err |-> Nil, calls |-> <<>>]

\* return err, the consumer not invoked
Failed(e) == [err |-> e, calls |-> <<>>]

\* fmt.Errorf("Unexpected ... packet: %#v", parts): the error carries the fields.
Unexpected(what, parts) == [type |-> what, text |-> Join(parts)]

\* The end of rmcParser and vtgParser: the deferred error is returned before
\* the consumer is invoked.
ReportedBefore(cp, call) ==
    IF cp.panic THEN Failed(Panic)
    ELSE IF cp.err # Nil THEN Failed(cp.err)
    ELSE [err |-> Nil, calls |-> <<call>>]

\* The end of the decoders that build the record in the call and return
\* cp.err after it: the consumer is invoked whatever cp.err holds.
InvokedThenReported(cp, call) ==
    IF cp.panic THEN Failed(Panic)
    ELSE [err |-> cp.err, calls |-> <<call>>]

\* A decoder that reads its fields before it looks at the consumer.
rmcParserFieldsFirst(parts, h) ==
    IF ~Has(parts, 9) THEN Failed(Panic)
    ELSE IF ~ParseClockDate(Field(parts, 1), Field(parts, 9))
         THEN Failed(TimeError(Field(parts, 1) \o <<" ">> \o Field(parts, 9)))
    ELSE IF "RMC" \notin h THEN Ignored
    ELSE [err |-> Nil, calls |-> <<Call("RMC")>>]

\* func rmcParser(parts []string, handler interface{}) error
rmcParser(parts, h) ==
    IF "RMC" \notin h THEN Ignored
    ELSE IF ~Has(parts, 9) THEN Failed(Panic)
    ELSE IF ~ParseClockDate(Field(parts, 1), Field(parts, 9))
         THEN Failed(TimeError(Field(parts, 1) \o <<" ">> \o Field(parts, 9)))
    ELSE LET magvar == IF Field(parts, 10) # <<>>
                       THEN <<FloatOf(parts, 10), Read(parts, 11)>>
                       ELSE <<>>
             cp == Eval(parts, NewParser,
                        <<DMSOf(parts, 3), DMSOf(parts, 5), FloatOf(parts, 7),
                          FloatOf(parts, 8), Read(parts, 10)>> \o magvar)
         IN  IF cp.panic \/ cp.err # Nil THEN ReportedBefore(cp, Call("RMC"))
             \* Status: rune(parts[2][0])
             ELSE IF Field(parts, 2) = <<>> THEN Failed(Panic)
             ELSE ReportedBefore(cp, Call("RMC"))

\* The unit tags of vtgParser, compared in turn: the first field that is
\* missing panics, the first that differs is an error.
RECURSIVE UnitTags(_, _, _)
UnitTags(parts, tags, what) ==
    IF Len(tags) = 0 THEN Nil
    ELSE IF ~Has(parts, tags[1][1]) THEN Panic
    ELSE IF Field(parts, tags[1][1]) # tags[1][2] THEN Unexpected(what, parts)
    ELSE UnitTags(parts, Tail(tags), what)

\* func vtgParser(parts []string, handler interface{}) error
vtgParser(parts, h) ==
    IF "VTG" \notin h THEN Ignored
    ELSE LET tags == UnitTags(parts, << <<2, <<"T">> >>, <<4, <<"M">> >>,
                                        <<6, <<"N">> >>, <<8, <<"K">> >> >>,
                             "Unexpected VTG packet")
         IN  IF tags # Nil THEN Failed(tags)
             ELSE ReportedBefore(
                      Eval(parts, NewParser,
                           <<FloatOf(parts, 1), FloatOf(parts, 3),
                             FloatOf(parts, 5), FloatOf(parts, 7)>>),
                      Call("VTG"))

\* func ggaParser(parts []string, handler interface{}) error
ggaParser(parts, h) ==
    IF "GGA" \notin h THEN Ignored
    ELSE IF Len(parts) < 13 \/ Field(parts, 10) # <<"M">> \/ Field(parts, 12) # <<"M">>
         THEN Failed(Unexpected("Unexpected GGA packet", parts))
    ELSE IF ~ParseClock(Field(parts, 1)) THEN Failed(TimeError(Field(parts, 1)))
    ELSE InvokedThenReported(
             Eval(parts, NewParser,
                  <<DMSOf(parts, 2), DMSOf(parts, 4), IntOf(parts, 6), FloatOf(parts, 8),
                    IntOf(parts, 7), FloatOf(parts, 9), FloatOf(parts, 11)>>),
             Call("GGA"))

\* The loop of gsaParser over parts[3:15]: the slots that are not empty.
SatsUsed(parts) ==
    SelectSeq([i \in 1 .. 12 |-> IntOf(parts, i + 2)], LAMBDA st : st.s # <<>>)

\* func gsaParser(parts []string, handler interface{}) error
gsaParser(parts, h) ==
    IF "GSA" \notin h THEN Ignored
    ELSE IF Len(parts) # 18 THEN Failed(Unexpected("Unexpected GSA packet", parts))
    ELSE InvokedThenReported(
             Eval(parts, NewParser,
                  SatsUsed(parts) \o
                  <<Read(parts, 1), IntOf(parts, 2), FloatOf(parts, 15),
                    FloatOf(parts, 16), FloatOf(parts, 17)>>),
             Call("GSA"))

\* func gllParser(parts []string, handler interface{}) error: it returns nil
\* after the call, whatever cp.err holds.
gllParser(parts, h) ==
    IF "GLL" \notin h THEN Ignored
    ELSE IF ~Has(parts, 5) THEN Failed(Panic)
    ELSE IF ~ParseClock(Field(parts, 5)) THEN Failed(TimeError(Field(parts, 5)))
    ELSE LET cp == Eval(parts, NewParser,
                        <<DMSOf(parts, 1), DMSOf(parts, 3), Read(parts, 6)>>)
         IN  IF cp.panic THEN Failed(Panic)
             ELSE [err |-> Nil, calls |-> <<Call("GLL")>>]

\* func zdaParser(parts []string, handler interface{}) error: time.Date takes
\* any hour, minute and second and normalises them, it reports no error.
zdaParser(parts, h) ==
    IF "ZDA" \notin h THEN Ignored
    ELSE IF Len(parts) # 7 \/ Len(Field(parts, 1)) < 6
         THEN Failed(Unexpected("Unexpected ZDA packet", parts))
    ELSE InvokedThenReported(
             Eval(parts, NewParser,
                  <<IntOf(parts, 5), IntOf(parts, 6), IntOf(parts, 4), IntOf(parts, 3),
                    IntOf(parts, 2),
                    IntOfText(SubSeq(Field(parts, 1), 1, 2)),
                    IntOfText(SubSeq(Field(parts, 1), 3, 4)),
                    IntOfText(SubSeq(Field(parts, 1), 5, 6)),
                    FloatOfText(From(Field(parts, 1), 6))>>),
             Call("ZDA"))

\* The groups of gsvParser: for i := 4; i+4 <= len(parts); i += 4
RECURSIVE GroupSteps(_, _)
GroupSteps(parts, i) ==
    IF i + 4 > Len(parts) THEN <<>>
    ELSE <<IntOf(parts, i), IntOf(parts, i + 1), IntOf(parts, i + 2), IntOf(parts, i + 3)>>
         \o GroupSteps(parts, i + 4)

\* A slip: the trailing group of fewer than four fields is kept, its missing
\* fields read as 0.
GroupValuesKeepingPartial(parts, i) ==
    [k \in 1 .. ((Len(parts) - i + 3) \div 4) |->
        <<parseIntValue(Field(parts, i + 4 * (k - 1))),
          parseIntValue(Field(parts, i + 4 * (k - 1) + 1)),
          parseIntValue(Field(parts, i + 4 * (k - 1) + 2)),
          parseIntValue(Field(parts, i + 4 * (k - 1) + 3))>>]

\* The GSVSatInfo values of the groups, in order: {SVPRNNumber, Elevation,
\* Azimuth, SNR}.
RECURSIVE GroupValues(_, _)
GroupValues(parts, i) ==
    IF i + 4 > Len(parts) THEN <<>>
    ELSE << <<parseIntValue(Field(parts, i)), parseIntValue(Field(parts, i + 1)),
              parseIntValue(Field(parts, i + 2)), parseIntValue(Field(parts, i + 3))>> >>
         \o GroupValues(parts, i + 4)

\* func gsvParser(parts []string, handler interface{}) error
gsvParser(parts, h) ==
    IF "GSV" \notin h THEN Ignored
    ELSE InvokedThenReported(
             Eval(parts, NewParser,
                  <<IntOf(parts, 3), IntOf(parts, 2), IntOf(parts, 1)>>
                  \o GroupSteps(parts, 4)),
             CallGSV([InView |-> parseIntValue(Field(parts, 3)),
                      SentenceNum |-> parseIntValue(Field(parts, 2)),
                      TotalSentences |-> parseIntValue(Field(parts, 1)),
                      SatInfo |-> GroupValues(parts, 4)]))

\* func aamParser(parts []string, handler interface{}) error
aamParser(parts, h) ==
    IF "AAM" \notin h THEN Ignored
    ELSE InvokedThenReported(
             Eval(parts, NewParser, <<Read(parts, 1), Read(parts, 2), FloatOf(parts, 3)>>),
             Call("AAM"))

\* func gstParser(parts []string, handler interface{}) error
gstParser(parts, h) ==
    IF "GST" \notin h THEN Ignored
    \* parts[1][:6]
    ELSE IF ~Has(parts, 1) \/ Len(Field(parts, 1)) < 6 THEN Failed(Panic)
    ELSE IF ~ParseClock(Upto(Field(parts, 1), 6))
         THEN Failed(TimeError(Upto(Field(parts, 1), 6)))
    ELSE InvokedThenReported(
             Eval(parts, NewParser,
                  <<FloatOf(parts, 2), FloatOf(parts, 3), FloatOf(parts, 4), FloatOf(parts, 5),
                    FloatOf(parts, 6), FloatOf(parts, 7), FloatOf(parts, 8)>>),
             Call("GST"))

----------------------------------------------------------------------------
(* The sentence registry and parseMessage.                                 *)

\* The tag of a sentence kind: "$GP" and the three letters of the kind.
TagRMC == <<"$", "G", "P", "R", "M", "C">>
TagVTG == <<"$", "G", "P", "V", "T", "G">>
TagGGA == <<"$", "G", "P", "G", "G", "A">>
TagGSA == <<"$", "G", "P", "G", "S", "A">>
TagGLL == <<"$", "G", "P", "G", "L", "L">>
TagZDA == <<"$", "G", "P", "Z", "D", "A">>
TagGSV == <<"$", "G", "P", "G", "S", "V">>
TagAAM == <<"$", "G", "P", "A", "A", "M">>
TagGST == <<"$", "G", "P", "G", "S", "T">>

\* A registry that is looked up by the three letters of the kind alone.
parsersAnyTalker(tag) ==
    IF Len(tag) < 3 THEN "none"
    ELSE LET t == From(tag, Len(tag) - 3)
         IN  IF t = <<"R", "M", "C">> THEN "RMC"
             ELSE IF t = <<"V", "T", "G">> THEN "VTG"
             ELSE IF t = <<"G", "L", "L">> THEN "GLL"
             ELSE "none"

\* var parsers = map[string]func([]string, interface{}) error{...}: the decoder
\* registered for a tag, named by its sentence kind ("none": no entry).
parsers(tag) ==
    IF tag = TagRMC THEN "RMC"
    ELSE IF tag = TagVTG THEN "VTG"
    ELSE IF tag = TagGGA THEN "GGA"
    ELSE IF tag = TagGSA THEN "GSA"
    ELSE IF tag = TagGLL THEN "GLL"
    ELSE IF tag = TagZDA THEN "ZDA"
    ELSE IF tag = TagGSV THEN "GSV"
    ELSE IF tag = TagAAM THEN "AAM"
    ELSE IF tag = TagGST THEN "GST"
    ELSE "none"

\* A registry that holds aamParser under every tag.
DecodeMisrouted(kind, parts, h) == aamParser(parts, h)

\* p(parts, handler) for the decoder p of a kind
Decode(kind, parts, h) ==
    IF kind = "RMC" THEN rmcParser(parts, h)
    ELSE IF kind = "VTG" THEN vtgParser(parts, h)
    ELSE IF kind = "GGA" THEN ggaParser(parts, h)
    ELSE IF kind = "GSA" THEN gsaParser(parts, h)
    ELSE IF kind = "GLL" THEN gllParser(parts, h)
    ELSE IF kind = "ZDA" THEN zdaParser(parts, h)
    ELSE IF kind = "GSV" THEN gsvParser(parts, h)
    ELSE IF kind = "AAM" THEN aamParser(parts, h)
    ELSE gstParser(parts, h)

\* strings.Split(line[:len(line)-3], ",")
Tokenize(l) == Split(Upto(l, Len(l) - 3))

\* A parseMessage that decodes the line without validating it.
parseMessageUnchecked(l, h) ==
    LET parts == Tokenize(l)
    IN  IF parsers(parts[1]) # "none"
        THEN Decode(parsers(parts[1]), parts, h)
        ELSE Ignored

\* func parseMessage(line string, handler interface{}) error
parseMessage(l, h) ==
    IF ~checkChecksum(l) THEN Failed(errBadChecksum)
    ELSE LET parts == Tokenize(l)
         IN  IF parsers(parts[1]) # "none"
             THEN Decode(parsers(parts[1]), parts, h)
             ELSE Ignored

----------------------------------------------------------------------------
(* The sentences the decoders are given: the example of each kind from the *)
(* source, and what a sender or a damaged line makes of it.                *)

\* $GPRMC,162254.00,A,3723.02837,N,12159.39853,W,0.820,188.36,110706,,,A
BaseRMC ==
    <<<<"$", "G", "P", "R", "M", "C">>, <<"1", "6", "2", "2", "5", "4", ".", "0", "0">>,
      <<"A">>, <<"3", "7", "2", "3", ".", "0", "2", "8", "3", "7">>, <<"N">>,
      <<"1", "2", "1", "5", "9", ".", "3", "9", "8", "5", "3">>, <<"W">>,
      <<"0", ".", "8", "2", "0">>, <<"1", "8", "8", ".", "3", "6">>,
      <<"1", "1", "0", "7", "0", "6">>, <<>>, <<>>, <<"A">>>>

\* $GPVTG,054.7,T,034.4,M,005.5,N,010.2,K
BaseVTG ==
    <<<<"$", "G", "P", "V", "T", "G">>, <<"0", "5", "4", ".", "7">>, <<"T">>,
      <<"0", "3", "4", ".", "4">>, <<"M">>, <<"0", "0", "5", ".", "5">>, <<"N">>,
      <<"0", "1", "0", ".", "2">>, <<"K">>>>

\* $GPGGA,123519,4807.038,N,01131.000,E,1,08,0.9,545.4,M,46.9,M,,
BaseGGA ==
    <<<<"$", "G", "P", "G", "G", "A">>, <<"1", "2", "3", "5", "1", "9">>,
      <<"4", "8", "0", "7", ".", "0", "3", "8">>, <<"N">>,
      <<"0", "1", "1", "3", "1", ".", "0", "0", "0">>, <<"E">>, <<"1">>, <<"0", "8">>,
      <<"0", ".", "9">>, <<"5", "4", "5", ".", "4">>, <<"M">>, <<"4", "6", ".", "9">>,
      <<"M">>, <<>>, <<>>>>

\* $GPGSA,A,3,04,05,,09,12,,,24,,,,,2.5,1.3,2.1
BaseGSA ==
    <<<<"$", "G", "P", "G", "S", "A">>, <<"A">>, <<"3">>, <<"0", "4">>, <<"0", "5">>, <<>>,
      <<"0", "9">>, <<"1", "2">>, <<>>, <<>>, <<"2", "4">>, <<>>, <<>>, <<>>, <<>>,
      <<"2", ".", "5">>, <<"1", ".", "3">>, <<"2", ".", "1">>>>

\* $GPGLL,4916.45,N,12311.12,W,225444,A,
BaseGLL ==
    <<<<"$", "G", "P", "G", "L", "L">>, <<"4", "9", "1", "6", ".", "4", "5">>, <<"N">>,
      <<"1", "2", "3", "1", "1", ".", "1", "2">>, <<"W">>, <<"2", "2", "5", "4", "4", "4">>,
      <<"A">>, <<>>>>

\* $GPZDA,201530.00,04,07,2002,00,00
BaseZDA ==
    <<<<"$", "G", "P", "Z", "D", "A">>, <<"2", "0", "1", "5", "3", "0", ".", "0", "0">>,
      <<"0", "4">>, <<"0", "7">>, <<"2", "0", "0", "2">>, <<"0", "0">>, <<"0", "0">>>>

\* $GPGSV,4,4,14,07,01,181,,15,25,135,
BaseGSV ==
    <<<<"$", "G", "P", "G", "S", "V">>, <<"4">>, <<"4">>, <<"1", "4">>, <<"0", "7">>,
      <<"0", "1">>, <<"1", "8", "1">>, <<>>, <<"1", "5">>, <<"2", "5">>, <<"1", "3", "5">>,
      <<>>>>

\* $GPAAM,A,A,0.10,N,WPTNME
BaseAAM ==
    <<<<"$", "G", "P", "A", "A", "M">>, <<"A">>, <<"A">>, <<"0", ".", "1", "0">>, <<"N">>,
      <<"W", "P", "T", "N", "M", "E">>>>

\* $GPGST,024603.00,3.2,6.6,4.7,47.3,5.8,5.6,22.0
BaseGST ==
    <<<<"$", "G", "P", "G", "S", "T">>, <<"0", "2", "4", "6", "0", "3", ".", "0", "0">>,
      <<"3", ".", "2">>, <<"6", ".", "6">>, <<"4", ".", "7">>, <<"4", "7", ".", "3">>,
      <<"5", ".", "8">>, <<"5", ".", "6">>, <<"2", "2", ".", "0">>>>

\* The example frame of a kind.
BaseFrame(kind) ==
    IF kind = "RMC" THEN BaseRMC
    ELSE IF kind = "VTG" THEN BaseVTG
    ELSE IF kind = "GGA" THEN BaseGGA
    ELSE IF kind = "GSA" THEN BaseGSA
    ELSE IF kind = "GLL" THEN BaseGLL
    ELSE IF kind = "ZDA" THEN BaseZDA
    ELSE IF kind = "GSV" THEN BaseGSV
    ELSE IF kind = "AAM" THEN BaseAAM
    ELSE BaseGST

\* What one field of a frame is replaced by: nothing, a text that is no
\* number, a number too short to be a position or a time, times of day with
\* the hour, the minute or the second out of range, and a position with a
\* byte that is no digit.
FieldValues == {
    <<>>,
    <<"X">>,
    <<"1">>,
    <<"2", "6", "0", "0", "0", "0">>,
    <<"1", "2", "6", "0", "0", "0">>,
    <<"1", "2", "0", "0", "6", "0">>,
    <<"1", "2", "X", "4", ".", "5">> }

\* frame with its field i (counted from 0) replaced by v
Replace(frame, i, v) == [frame EXCEPT ![i + 1] = v]

\* The frames made from the example of a kind: the example, the example with
\* one field replaced, with only its first fields, and with one field more (a
\* number, or a text that is no number).
FramesOf(kind) ==
    LET b == BaseFrame(kind)
    IN  {b}
        \cup {Replace(b, i, v) : i \in 1 .. (Len(b) - 1), v \in FieldValues}
        \cup {Upto(b, m) : m \in 1 .. (Len(b) - 1)}
        \cup {Append(b, <<"1">>), Append(b, <<"X">>)}

\* Frames whose tag is not registered: another sentence, another talker.
UnknownFrames == {
    <<<<"$", "G", "P", "X", "T", "E">>, <<"A">>>>,
    <<<<"$", "L", "C", "V", "T", "G">>, <<"0", "5", "4", ".", "7">>, <<"T">>>>,
    Replace(BaseVTG, 0, <<"$", "L", "C", "V", "T", "G">>) }

\* The two hexadecimal digits of a byte, as a sender writes them.
HexDigits == <<"0", "1", "2", "3", "4", "5", "6", "7", "8", "9", "A", "B", "C", "D", "E", "F">>

HexByte(n) == <<HexDigits[(n \div 16) + 1], HexDigits[(n % 16) + 1]>>

\* The line a sender makes of a frame: the fields joined by commas, '*' and
\* the checksum of everything after the '$'.
Seal(frame) ==
    Join(frame) \o <<"*">> \o HexByte(XorAll(Tail(Join(frame))))

\* The same line with a checksum that is off by one bit.
Damage(frame) ==
    Join(frame) \o <<"*">> \o HexByte(BitXor(XorAll(Tail(Join(frame))), 1))

AllFrames == (UNION {FramesOf(k) : k \in Kinds}) \cup UnknownFrames

\* The lines parseMessage is given.
ParseLines ==
    {Seal(f) : f \in AllFrames} \cup {Damage(BaseFrame(k)) : k \in Kinds}

\* The consumers: nil or one that satisfies no Handler interface, one that
\* satisfies them all, and one for each single kind.
Consumers == {{}, Kinds} \cup {{k} : k \in Kinds}

\* parseMessage has not been called yet.
Pending == [type |-> "pending", text |-> <<>>]

InitParse ==
    /\ line \in ParseLines
    /\ handler \in Consumers
    /\ perr = Pending
    /\ calls = <<>>

\* parseMessage(line, handler) is called.
ParseLine ==
    /\ perr = Pending
    /\ perr' = parseMessage(line, handler).err
    /\ calls' = parseMessage(line, handler).calls
    /\ UNCHANGED <<line, handler>>

----------------------------------------------------------------------------
(* Process: the loop over the lines of the reader.                         *)

\* How many lines the reader holds at most.
MaxLines == 2

\* `$GPGSV,4,1,1`, the junk line of TestNonDefaultErrorHandler
JunkLine == <<"$", "G", "P", "G", "S", "V", ",", "4", ",", "1", ",", "1">>

\* The lines the scanner may produce: the example of every kind, one with a
\* damaged checksum, the junk line, one with a malformed number, one with a
\* missing field, one that holds only its tag, and the unregistered ones.
ProcessLines ==
    {Seal(BaseFrame(k)) : k \in Kinds}
    \cup {Damage(BaseGGA), JunkLine,
          Seal(Replace(BaseGGA, 6, <<"X">>)),
          Seal(Upto(BaseZDA, 6)),
          Seal(<<TagRMC>>)}
    \cup {Seal(f) : f \in UnknownFrames}

\* The consumers Process is given.
ProcessConsumers == {{}, Kinds, {"GGA"}}

\* An error only the caller's policy makes.
errStop == [type |-> "stop", text |-> <<>>]

\* s.Err() of an input that failed
errIO == [type |-> "io", text |-> <<>>]

\* What errh may return for err: defaultErrorHandler returns nil, a policy of
\* the caller returns nil, err itself or an error of its own.
ErrhReturns(h, err) == IF h = "nil" THEN {Nil} ELSE {Nil, err, errStop}

\* if e := errh(err); e != nil { return e }, Process ignoring it
AfterErrhIgnoring(e) == [pc |-> "scan", result |-> Pending]

\* if e := errh(err); e != nil { return e }
AfterErrh(e) ==
    IF e # Nil THEN [pc |-> "done", result |-> e]
    ELSE [pc |-> "scan", result |-> Pending]

\* Process(r, handler, errh) has been called, nothing is read yet.
InitProcess ==
    /\ pc = "scan"
    /\ errh \in {"nil", "custom"}
    /\ handler \in ProcessConsumers
    /\ nread = 0
    /\ line = <<>>
    /\ perr = Nil
    /\ calls = <<>>
    /\ errhArgs = <<>>
    /\ errhRet = Nil
    /\ result = Pending

\* One turn of the loop: s.Scan() produces a line, parseMessage is called on
\* it, and errh is called with the error when there is one.
ScanLine ==
    /\ pc = "scan"
    /\ nread < MaxLines
    /\ \E l \in ProcessLines :
          LET r == parseMessage(l, handler)
          IN  /\ line' = l
              /\ nread' = nread + 1
              /\ perr' = r.err
              /\ calls' = r.calls
              /\ IF r.err = Panic
                 THEN /\ pc' = "panic"
                      /\ UNCHANGED <<errhArgs, errhRet, result>>
                 ELSE IF r.err = Nil
                 THEN /\ errhArgs' = <<>>
                      /\ errhRet' = Nil
                      /\ UNCHANGED <<pc, result>>
                 ELSE /\ errhArgs' = <<r.err>>
                      /\ \E e \in ErrhReturns(errh, r.err) :
                            /\ errhRet' = e
                            /\ pc' = AfterErrh(e).pc
                            /\ result' = AfterErrh(e).result
    /\ UNCHANGED <<handler, errh>>

\* The end of the input with s.Err() handed to errh, as a line's error is.
EndOfInputViaPolicy ==
    /\ pc = "scan"
    /\ \E e \in {Nil, errIO} :
          /\ result' = e
          /\ errhArgs' = IF e = Nil THEN errhArgs ELSE <<e>>
    /\ pc' = "done"
    /\ UNCHANGED <<line, handler, perr, calls, errh, nread, errhRet>>

\* s.Scan() returns false: return s.Err(), nil at the end of the input.
EndOfInput ==
    /\ pc = "scan"
    /\ result' \in {Nil, errIO}
    /\ pc' = "done"
    /\ UNCHANGED <<line, handler, perr, calls, errh, nread, errhArgs, errhRet>>

----------------------------------------------------------------------------
(* FixQuality and its String method.                                       *)

\* The largest magnitude of a FixQuality given to String.
MaxQuality == 40

\* const ( InvalidFix = FixQuality(iota) ... SimulationModeFix )
InvalidFix == 0
GPSFix == 1
DGPSFix == 2
PPSFix == 3
RealTimeKinematicFix == 4
FloatRealTimeKinematicFix == 5
EstimatedFix == 6
ManualInputModeFix == 7
SimulationModeFix == 8

\* var fixNames = []string{...}: element i of the slice is fixNames[i + 1]
fixNames ==
    <<"invalid fix", "gps", "dgps", "pps", "rt kinematic", "float rt kinematic",
      "estimated", "manual mode", "sim mode">>

\* The outcomes of a call: a string returned, a run-time panic (index out of
\* range), and no call yet.
Returned(s) == [type |-> "string", text |-> s]

Faulted == [type |-> "panic", text |-> ""]

NotCalled == [type |-> "none", text |-> ""]

\* func (q FixQuality) String() string { return fixNames[q] }
FixString(q) ==
    IF q >= 0 /\ q < Len(fixNames) THEN Returned(fixNames[q + 1]) ELSE Faulted

\* Some FixQuality, String not called yet.
InitFix ==
    /\ fq \in (0 - MaxQuality) .. MaxQuality
    /\ fqStr = NotCalled

\* fq.String() is called.
CallString ==
    /\ fqStr = NotCalled
    /\ fqStr' = FixString(fq)
    /\ UNCHANGED fq

----------------------------------------------------------------------------
(* The specifications.                                                     *)

\* The GSVAccumulator is left at its zero value.
AccIdle == InitAcc

\* No checkChecksum call is modelled.
CsIdle ==
    /\ csLine = <<>>
    /\ csValid = "unchecked"

\* No parseMessage call is modelled.
MsgIdle ==
    /\ line = <<>>
    /\ handler = {}
    /\ perr = Nil
    /\ calls = <<>>

\* Process is not running.
ProcIdle ==
    /\ pc = "idle"
    /\ errh = "nil"
    /\ nread = 0
    /\ errhArgs = <<>>
    /\ errhRet = Nil
    /\ result = Nil

\* No String call is modelled.
FixIdle ==
    /\ fq = 0
    /\ fqStr = NotCalled

\* No primitive of a cumulativeErrorParser is called.
CumIdle ==
    /\ cep = NewParser
    /\ cepOp = NoCall
    /\ cepN = 0
    /\ cepFail = Nil
    /\ cepFails = 0

NextAcc == AddFragment /\ UNCHANGED <<csVars, msgVars, procVars, fixVars, cumVars>>

InitSpecAcc == InitAcc /\ CsIdle /\ MsgIdle /\ ProcIdle /\ FixIdle /\ CumIdle

SpecAcc == InitSpecAcc /\ [][NextAcc]_vars

NextChecksum == CheckLine /\ UNCHANGED <<accVars, msgVars, procVars, fixVars, cumVars>>

InitSpecChecksum == InitChecksum /\ AccIdle /\ MsgIdle /\ ProcIdle /\ FixIdle /\ CumIdle

SpecChecksum == InitSpecChecksum /\ [][NextChecksum]_vars

NextParse == ParseLine /\ UNCHANGED <<accVars, csVars, procVars, fixVars, cumVars>>

NextProcess == (ScanLine \/ EndOfInput) /\ UNCHANGED <<accVars, csVars, fixVars, cumVars>>

InitSpecProcess == InitProcess /\ AccIdle /\ CsIdle /\ FixIdle /\ CumIdle

SpecProcess == InitSpecProcess /\ [][NextProcess]_vars

InitSpecParse == InitParse /\ AccIdle /\ CsIdle /\ ProcIdle /\ FixIdle /\ CumIdle

SpecParse == InitSpecParse /\ [][NextParse]_vars


NextFix == CallString /\ UNCHANGED <<accVars, csVars, msgVars, procVars, cumVars>>

InitSpecFix == InitFix /\ AccIdle /\ CsIdle /\ MsgIdle /\ ProcIdle /\ CumIdle

SpecFix == InitSpecFix /\ [][NextFix]_vars

NextNumbered == AddNumbered /\ UNCHANGED <<csVars, msgVars, procVars, fixVars, cumVars>>

InitSpecNumbered == InitAcc /\ CsIdle /\ MsgIdle /\ ProcIdle /\ FixIdle /\ CumIdle

SpecNumbered == InitSpecNumbered /\ [][NextNumbered]_vars

NextCumulative == CallPrimitive /\ UNCHANGED <<accVars, csVars, msgVars, procVars, fixVars>>

InitSpecCumulative == InitCumulative /\ AccIdle /\ CsIdle /\ MsgIdle /\ ProcIdle /\ FixIdle

SpecCumulative == InitSpecCumulative /\ [][NextCumulative]_vars

----------------------------------------------------------------------------
(* Properties of the GSVAccumulator.                                       *)

\* C1: whatever was added before, once the fragments numbered 1, 2, ..., k of a
\* total N (k <= N) have been added in that order, the latest Add returned
\* TRUE exactly when k = N, and at k = N the accumulator holds Parts = N,
\* prev = N and the concatenation of the N satellite lists in order.
C1_InOrderCompletion ==
    run >= 1 =>
        /\ ret = (run = runTotal)
        /\ run = runTotal =>
              /\ g.Parts = runTotal
              /\ g.prev = runTotal
              /\ g.SatInfo = runSats

\* A run of at least two fragments has completed with a non-empty merged list.
C1_Witness ==
    /\ run = runTotal
    /\ runTotal >= 2
    /\ ret
    /\ Len(runSats) >= 2
    /\ g.SatInfo = runSats
----------------------------------------------------------------------------
(* Properties of the checksum validator.                                   *)

HexDigitChars == {"0", "1", "2", "3", "4", "5", "6", "7", "8", "9",
                  "a", "b", "c", "d", "e", "f", "A", "B", "C", "D", "E", "F"}

\* The line has the shape $...*HH with HH two hexadecimal digits.
FrameShaped(l) ==
    /\ Len(l) >= 4
    /\ l[1] = "$"
    /\ l[Len(l) - 2] = "*"
    /\ l[Len(l) - 1] \in HexDigitChars
    /\ l[Len(l)] \in HexDigitChars

\* The bytes strictly between the leading '$' and the '*' that is third from last.
BodyOf(l) == SubSeq(l, 2, Len(l) - 3)

\* The byte the two trailing hexadecimal digits encode.
TrailerByte(l) == (16 * DigitOf(l[Len(l) - 1])) + DigitOf(l[Len(l)])

\* The exclusive-or of every byte of s, one bit at a time: bit k of the result
\* is the parity of the number of bytes of s with bit k set.
BitAt(n, k) == (n \div (2 ^ k)) % 2

ParityBit(s, k) == Cardinality({i \in 1 .. Len(s) : BitAt(Ord(s[i]), k) = 1}) % 2

XorOfBytes(s) ==
    ParityBit(s, 0) + (2 * ParityBit(s, 1)) + (4 * ParityBit(s, 2)) + (8 * ParityBit(s, 3))
    + (16 * ParityBit(s, 4)) + (32 * ParityBit(s, 5)) + (64 * ParityBit(s, 6))
    + (128 * ParityBit(s, 7))

\* C7: for a line of the shape $...*HH, checkChecksum returns true exactly
\* when the exclusive-or of all the bytes between the leading '$' and the '*'
\* that is third from last equals the byte HH encodes, also when the body
\* itself contains a '*'.
C7_ChecksumReference ==
    (csValid # "unchecked" /\ FrameShaped(csLine)) =>
        ((csValid = "valid") <=> (XorOfBytes(BodyOf(csLine)) = TrailerByte(csLine)))

\* C8: checkChecksum returns false for every line that is shorter than 4
\* characters, does not start with '$', does not have '*' third from last, or
\* does not end in two hexadecimal digits.
C8_MalformedIsInvalid ==
    (csValid # "unchecked" /\ ~FrameShaped(csLine)) => csValid = "invalid"

----------------------------------------------------------------------------
(* parseMessage: what a frame's decode hands to the consumer and returns.  *)

\* parseMessage has been called on line and the line passed checkChecksum.
Decoded == perr # Pending /\ line # <<>> /\ checkChecksum(line)

\* The fields of line and the sentence kind its tag is registered for.
Parts == Tokenize(line)

KindOfLine == parsers(Parts[1])

\* The decode of line reported a failure: parseMessage returned an error.
Reported == perr.type \notin {"nil", "pending", "panic"}

\* The fields of a kind that its decoder reads as a number or as a position.
NumericFields(kind) ==
    IF kind = "RMC" THEN {3, 5, 7, 8, 10}
    ELSE IF kind = "VTG" THEN {1, 3, 5, 7}
    ELSE IF kind = "GGA" THEN {2, 4, 6, 7, 8, 9, 11}
    ELSE IF kind = "GSA" THEN 2 .. 17
    ELSE IF kind = "GLL" THEN {1, 3}
    ELSE IF kind = "ZDA" THEN 2 .. 6
    ELSE IF kind = "GSV" THEN 1 .. 11
    ELSE IF kind = "AAM" THEN {3}
    ELSE IF kind = "GST" THEN 2 .. 8
    ELSE {}

\* A text that is not empty and is no number, whole or in part.
Malformed(s) == s # <<>> /\ \E i \in 1 .. Len(s) : ~IsDigit(s[i]) /\ s[i] \notin {".", "+", "-"}

\* The field of a kind that holds the time of day (-1: it holds none).
TimeField(kind) ==
    IF kind \in {"RMC", "GGA", "ZDA", "GST"} THEN 1
    ELSE IF kind = "GLL" THEN 5
    ELSE -1

\* A time of day HHMMSS whose hour, minute or second is out of range.
OutOfRange(s) ==
    /\ Len(s) >= 6
    /\ AllDigits(Upto(s, 6))
    /\ (TwoDigits(s, 1) > 23 \/ TwoDigits(s, 3) > 59 \/ TwoDigits(s, 5) > 59)

\* C3: the consumer is invoked at most once for a frame, and it is not invoked
\* for a frame whose decode reports a failure.
C3_HandlerNeverInvokedOnFailure ==
    perr # Pending =>
        /\ Len(calls) <= 1
        /\ Reported => calls = <<>>

\* C4: when the consumer implements the capability of the frame's kind and a
\* numeric or position field of the frame is not empty and not parseable, the
\* decode does not return success.
C4_MalformedNumericReported ==
    (/\ Decoded
     /\ KindOfLine \in handler
     /\ \E i \in NumericFields(KindOfLine) : Has(Parts, i) /\ Malformed(Field(Parts, i)))
    => perr # Nil

\* C5: when the consumer implements the capability of the frame's kind and the
\* frame holds only its tag, the decoder returns a failure, it does not fault
\* and it does not invoke the consumer.
C5_UnderflowIsFailure ==
    (Decoded /\ KindOfLine \in handler /\ Len(Parts) = 1)
    => (Reported /\ calls = <<>>)

\* C9: a frame of a kind that carries a time of day (RMC, GGA, GLL, ZDA, GST)
\* whose hour, minute or second is out of range yields a decode failure and
\* nothing is handed to the consumer.
C9_InvalidTimeIsFailure ==
    (/\ Decoded
     /\ KindOfLine \in handler
     /\ TimeField(KindOfLine) # -1
     /\ Has(Parts, TimeField(KindOfLine))
     /\ OutOfRange(Field(Parts, TimeField(KindOfLine))))
    => (perr # Nil /\ calls = <<>>)

\* C10: for a checksum-valid frame with a registered tag whose decode succeeds
\* and a consumer that implements the capability of the frame's kind, exactly
\* one handling operation is invoked, once, and it is the one of that kind.
C10_ExactlyOnceDispatch ==
    (Decoded /\ perr = Nil /\ KindOfLine \in handler)
    => (Len(calls) = 1 /\ calls[1].kind = KindOfLine)

\* A consumer that implements every capability was handed a GLL record, and
\* nothing else, for a GLL frame that decoded.
C10_Witness ==
    /\ Decoded
    /\ perr = Nil
    /\ handler = Kinds
    /\ KindOfLine = "GLL"
    /\ Len(calls) = 1
    /\ calls[1].kind = "GLL"

----------------------------------------------------------------------------
(* Process: the error policy.                                              *)

\* C2: when the error policy returns a non-nil value e for a line, Process
\* returns exactly e at once: from then on no line is read, validated, decoded
\* or dispatched and the policy is not invoked again.
C2_AbortOnPolicyError ==
    /\ [](errhRet # Nil => (pc = "done" /\ result = errhRet))
    /\ [][errhRet # Nil => UNCHANGED vars]_vars

\* The policy of the caller stopped Process on the first line of an input, with
\* an error of its own.
C2_Witness ==
    /\ errh = "custom"
    /\ nread = 1
    /\ nread < MaxLines
    /\ errhArgs # <<>>
    /\ errhRet = errStop
    /\ pc = "done"
    /\ result = errStop

\* C6: every failure of a line is passed to the error policy together with the
\* raw text of that line: the policy is called as (rawLine, failure).
C6_PolicyReceivesRawLine ==
    (nread >= 1 /\ perr # Nil /\ perr # Panic)
    => (Len(errhArgs) = 2 /\ errhArgs[1] = line /\ errhArgs[2] = perr)

----------------------------------------------------------------------------
(* parseMessage: frames the consumer does not handle, unregistered tags.   *)

\* The tags of the registry.
RegisteredTags ==
    {TagRMC, TagVTG, TagGGA, TagGSA, TagGLL, TagZDA, TagGSV, TagAAM, TagGST}

C12_UnknownTagDropped ==
    (Decoded /\ Parts[1] \notin RegisteredTags)
    => (perr = Nil /\ calls = <<>> /\ errhArgs = <<>>)

\* A complete VTG sentence of the talker LC is dropped by a consumer that
\* implements every kind.
C12_Witness ==
    /\ Decoded
    /\ Parts = Replace(BaseVTG, 0, <<"$", "L", "C", "V", "T", "G">>)
    /\ handler = Kinds
    /\ perr = Nil
    /\ calls = <<>>

----------------------------------------------------------------------------
(* Process: bad checksums, the default policy, the end of the input.       *)

\* C13: a line that fails checksum validation is not decoded, no handling
\* operation is invoked for it, and the failure the error policy is given for
\* that line is the bad-checksum failure.
C13_BadChecksumStops ==
    (nread >= 1 /\ ~checkChecksum(line))
    => /\ perr = errBadChecksum
       /\ calls = <<>>
       /\ errhArgs # <<>>
       /\ errhArgs[Len(errhArgs)] = errBadChecksum

\* A well-formed GGA sentence with a damaged checksum reached a consumer that
\* implements every kind: nothing was invoked, the policy got errBadChecksum.
C13_Witness ==
    /\ nread >= 1
    /\ line = Damage(BaseGGA)
    /\ handler = Kinds
    /\ perr = errBadChecksum
    /\ calls = <<>>
    /\ errhArgs = <<errBadChecksum>>

\* C14: when Process is given no error policy (nil), every failure of a line
\* is swallowed, every line is still processed, and Process returns success
\* whenever the source produced no I/O failure.
C14_DefaultPolicyContinues ==
    errh = "nil" =>
        /\ pc # "panic"
        /\ errhRet = Nil
        /\ (pc = "done" /\ result # errIO) => result = Nil

\* C15: under a policy that returns continue on every call, Process processes
\* every line of a finite input and returns success (nil) at its end.
C15_EndOfInputSuccess ==
    (nread >= 1 => errhRet = Nil) =>
        /\ pc # "panic"
        /\ (pc = "done" /\ result # errIO) => result = Nil

\* C16: when the line source fails with an I/O error, Process returns that
\* error as its result and the error policy is not invoked for it.
C16_IOFailureBypassesPolicy ==
    [][result' = errIO =>
           /\ pc' = "done"
           /\ UNCHANGED <<errhArgs, errhRet, line, perr, calls, nread>>]_vars

\* The source failed after a line whose failure the policy had been given:
\* Process returned the I/O error, the policy saw the line's failure only.
C16_Witness ==
    /\ result = errIO
    /\ pc = "done"
    /\ nread >= 1
    /\ perr # Nil
    /\ errhArgs = <<perr>>
    /\ errhRet = Nil

----------------------------------------------------------------------------
(* Properties of FixQuality.String.                                        *)

\* The text "[Invalid Fix Value: n]"
InvalidFixText(n) == "[Invalid Fix Value: " \o ToString(n) \o "]"

\* C17: FixQuality.String returns the defined name for each of the nine codes
\* 0..8 and, for every other integer n, negative or above the range, the text
\* "[Invalid Fix Value: n]"; it does not fault.
C17_FixStringTotal ==
    fqStr # NotCalled =>
        IF fq \in InvalidFix .. SimulationModeFix
        THEN fqStr = Returned(fixNames[fq + 1])
        ELSE fqStr = Returned(InvalidFixText(fq))

----------------------------------------------------------------------------
(* The branches of GSVAccumulator.Add, one call at a time: g is the        *)
(* accumulator before the call, g' after it, last' the fragment added.     *)

\* The call took the first branch of Add.
Resynchronized == branch' \in {"resync", "orphan"}

\* C18: Add resynchronizes exactly when the fragment's TotalSentences differs
\* from the tracked Parts or its SentenceNum is not prev + 1; after a
\* resynchronization on a fragment with SentenceNum = 1 the accumulator holds
\* the fragment's InView, TotalSentences and SatInfo and prev = 1, and nothing
\* of the list accumulated before.
C18_ResyncBranch ==
    [][/\ Resynchronized <=>
              (last'.TotalSentences # g.Parts \/ last'.SentenceNum # g.prev + 1)
       /\ (Resynchronized /\ last'.SentenceNum = 1) =>
              g' = [InView |-> last'.InView, Parts |-> last'.TotalSentences,
                    prev |-> 1, SatInfo |-> last'.SatInfo]
       /\ ~Resynchronized => g'.InView = g.InView]_vars

\* The latest Add resynchronized on fragment 1 of several and holds exactly
\* that fragment's satellite entry.
C18_Witness ==
    /\ branch = "resync"
    /\ last.SentenceNum = 1
    /\ last.TotalSentences >= 2
    /\ Len(last.SatInfo) = 1
    /\ g = [InView |-> last.InView, Parts |-> last.TotalSentences,
            prev |-> 1, SatInfo |-> last.SatInfo]

\* C19: after a resynchronization on a fragment whose SentenceNum is not 1 the
\* accumulator has prev = 0 and an empty SatInfo (the orphan's own entries are
\* not kept), and InView and Parts are the orphan's.
C19_OrphanDiscard ==
    [][(Resynchronized /\ last'.SentenceNum # 1) =>
           g' = [InView |-> last'.InView, Parts |-> last'.TotalSentences,
                 prev |-> 0, SatInfo |-> <<>>]]_vars

\* The latest Add was given fragment 2 or later out of sequence, with a
\* satellite entry of its own: the accumulator kept none.
C19_Witness ==
    /\ branch = "orphan"
    /\ last.SentenceNum >= 2
    /\ Len(last.SatInfo) = 1
    /\ g.prev = 0
    /\ g.SatInfo = <<>>
    /\ g.Parts = last.TotalSentences
    /\ g.InView = last.InView

\* C20: when the fragment's TotalSentences equals Parts and its SentenceNum
\* equals prev + 1, Add appends its satellite entries after the accumulated
\* ones, sets prev to its SentenceNum, leaves Parts unchanged, and returns true
\* exactly when prev now equals Parts.
C20_ContinueBranch ==
    [][(last'.TotalSentences = g.Parts /\ last'.SentenceNum = g.prev + 1) =>
           /\ g'.SatInfo = g.SatInfo \o last'.SatInfo
           /\ g'.prev = last'.SentenceNum
           /\ g'.Parts = g.Parts
           /\ ret' = (g'.prev = g'.Parts)]_vars

\* The latest Add continued a sequence that is not complete yet and holds two
\* different satellite entries, the newer one last.
C20_Witness ==
    /\ branch = "continue"
    /\ g.prev = 2
    /\ g.Parts = 3
    /\ ~ret
    /\ Len(g.SatInfo) = 2
    /\ g.SatInfo[1] # g.SatInfo[2]
    /\ <<g.SatInfo[2]>> = last.SatInfo

----------------------------------------------------------------------------
(* More properties of GSVAccumulator.Add.                                  *)

\* C21: whenever Add takes the resynchronize branch it returns true exactly
\* when the fragment's TotalSentences is 1.
C21_ResyncResult ==
    [][(last'.TotalSentences # g.Parts \/ last'.SentenceNum # g.prev + 1) =>
           (ret' = (last'.TotalSentences = 1))]_vars

\* The latest Add resynchronized on the only fragment of a sequence of one
\* and returned true.
C21_Witness ==
    /\ branch = "resync"
    /\ last.TotalSentences = 1
    /\ last.SentenceNum = 1
    /\ ret
    /\ g.prev = 1
    /\ g.SatInfo = last.SatInfo

\* C22: after an Add call has returned true, the accumulated satellite list
\* stays unchanged until an Add call takes the resynchronize branch: a call on
\* the continue branch does not modify the list of a completed sequence.
C22_CompletedDataPersists ==
    [][(ret /\ last'.TotalSentences = g.Parts /\ last'.SentenceNum = g.prev + 1) =>
           g'.SatInfo = g.SatInfo]_vars

\* C23: after every Add(a) call, whichever branch it takes, the InView field
\* of the accumulator equals a.InView.
C23_InViewIsLastReported ==
    branch # "none" => g.InView = last.InView

\* The accumulator tracks a partial sequence and the fragment added is the
\* next in number but carries another total.
TotalChanged ==
    /\ 0 < g.prev
    /\ g.prev < g.Parts
    /\ last'.SentenceNum = g.prev + 1
    /\ last'.TotalSentences # g.Parts

----------------------------------------------------------------------------
(* The error a cumulativeErrorParser records.                              *)

\* C25: after any sequence of primitive calls the parser records the error of
\* the most recent parse that failed; a later call that parses, or that is
\* given the empty text, never clears it, and no error is recorded while no
\* parse has failed.
C25_KeepsMostRecentFailure == cep.err = cepFail /\ (cepFails > 0 <=> cep.err # Nil)

\* Two calls failed, then an integer parsed: the second failure is recorded.
C25_Witness ==
    /\ cepN = 3
    /\ cepFails = 2
    /\ cepOp = [op |-> "int", s |-> <<"7">>, ref |-> <<>>]
    /\ cep.err = NumError("strconv.ParseFloat", <<"4", "8", "0", "Z", ".", "5">>)
    /\ ~cep.panic

----------------------------------------------------------------------------
(* The satellite entries of a decoded GSV frame.                           *)

\* A GSV frame of at least 4 fields was decoded for a consumer that handles
\* GSV.
GSVDecoded ==
    /\ Decoded
    /\ KindOfLine = "GSV"
    /\ Len(Parts) >= 4
    /\ "GSV" \in handler

\* The number of whole groups of four after the first four fields.
GroupCount == (Len(Parts) - 4) \div 4

\* The fields of the whole groups and of the three counts all parse.
GroupsParse ==
    \A i \in 2 .. (4 + 4 * GroupCount) : Parts[i] = <<>> \/ ParseInt(Parts[i], 10).ok

\* C26: a GSV frame of n >= 4 fields decoded for a consumer that handles GSV
\* hands over one record with exactly (n - 4) \div 4 satellite entries, entry
\* k being fields 4k, 4k+1, 4k+2, 4k+3 (from 0) as (PRN, elevation, azimuth,
\* SNR); the fields of a trailing group of fewer than four are dropped and
\* cause no failure, whatever they hold.
C26_GSVGroupsOfFour ==
    GSVDecoded =>
        /\ Len(calls) = 1
        /\ calls[1].kind = "GSV"
        /\ Len(calls[1].gsv.SatInfo) = GroupCount
        /\ \A k \in 1 .. GroupCount :
               calls[1].gsv.SatInfo[k] =
                   <<parseIntValue(Parts[4 * k + 1]), parseIntValue(Parts[4 * k + 2]),
                     parseIntValue(Parts[4 * k + 3]), parseIntValue(Parts[4 * k + 4])>>
        /\ GroupsParse => perr = Nil

\* The example frame with a thirteenth field that is no number: two entries,
\* no failure.
C26_Witness ==
    /\ GSVDecoded
    /\ Len(Parts) = 13
    /\ Parts[13] = <<"X">>
    /\ Len(calls[1].gsv.SatInfo) = 2
    /\ calls[1].gsv.SatInfo[2] = <<15, 25, 135, 0>>
    /\ perr = Nil

----------------------------------------------------------------------------
(* Process and parseMessage: failures and faults.                          *)

\* C27: on every turn of the loop of Process the error policy is invoked for
\* the line just read, once and with that line's failure, exactly when the
\* checksum validation or the decoding of the line failed; a line that decodes,
\* whose tag is not registered or whose capability the consumer lacks does not
\* reach the policy.
C27_PolicyOncePerFailingLine ==
    [][nread' = nread + 1 => ((perr' # Nil) <=> (errhArgs' = <<perr'>>))]_vars

\* C28: parseMessage returns for every line and every consumer, with nil or
\* with an error: no decoder reads a field or a substring range the line does
\* not have.
C28_NoFault == perr # Pending => perr.type # "panic"

----------------------------------------------------------------------------
(* The accumulator: no false completion, and its state invariant.          *)

\* C29: with fragments that all satisfy 1 <= SentenceNum <= TotalSentences,
\* whenever Add returns TRUE for a fragment of total N, the N most recent
\* fragments were numbered 1, 2, ..., N in that order, all of total N, and
\* SatInfo is the concatenation of exactly their satellite lists in order.
C29_NoFalseCompletion ==
    ret =>
        /\ run = last.TotalSentences
        /\ runTotal = last.TotalSentences
        /\ g.SatInfo = runSats

\* A sequence of two completed right after an orphaned fragment that carried
\* an entry of its own: the merged list holds the two fragments' entries only.
C29_Witness ==
    /\ ret
    /\ branch = "continue"
    /\ last.TotalSentences = 2
    /\ run = 2
    /\ Len(last.SatInfo) = 1
    /\ Len(g.SatInfo) = 2
    /\ g.SatInfo = runSats

\* C30: after any sequence of Add calls with arbitrary fragments, prev >= 0,
\* and prev = 0 implies that the accumulated satellite list is empty.
C30_PrevZeroMeansEmpty == g.prev >= 0 /\ (g.prev = 0 => g.SatInfo = <<>>)

\* An orphaned fragment that carried an entry was added: prev is 0 and the
\* list is empty.
C30_Witness ==
    /\ branch = "orphan"
    /\ last.SentenceNum > 1
    /\ Len(last.SatInfo) >= 1
    /\ g.prev = 0
    /\ g.SatInfo = <<>>

====
